---- MODULE Spec2Model ----
(***************************************************************************)
(* Model of rss-download (src/rss-download.go, the revision that starts    *)
(* at line 199): the weekly rapid-window calculator, the check scheduler,  *)
(* the shared request ticker, the per-feed watcher goroutines, the         *)
(* download goroutines and the message loop of main.                       *)
(*                                                                         *)
(* Time is an integer count of time units since an epoch that is a local   *)
(* midnight starting a Sunday (time.Weekday 0).  A day is DayLen units     *)
(* long and the local zone has no offset transitions.                      *)
(***************************************************************************)
EXTENDS Integers, Sequences, FiniteSets, Bags, TLC

VARIABLES
  \* ---- scheduler (one watcher's plan) ----
  flags,        \* *rapidCheckInterval, *checkInterval, *rapidCheckDuration
  feedCfg,      \* dayOfWeek, seconds of the feed row
  checkImmediate, \* *checkImmediate
  checkTime,    \* watchFeed's local checkTime
  lastCheck,    \* argument of the nextCheckTime call that produced checkTime
  now,          \* time.Now() as the watcher reads it (NoTime: not followed)
  \* ---- clock and request ticker ----
  requestDelay, \* *requestDelay, in time units
  untilTick,    \* time units until the next tick of requestDelayTicker
  tickerBuf,    \* ticks buffered in the requestDelayTicker channel (0 or 1)
  sinceReq,     \* time units since the latest outbound request started,
                \* counted up to requestDelay (history)
  \* ---- feed servers (environment) ----
  server,       \* server[f]: item list currently served at the feed's url
  \* ---- registry (feeds table) ----
  registry,     \* registry[f]: lastTitle column of row f
  \* ---- watchFeed goroutines ----
  pc,           \* pc[f]: "sleep" | "ticker" | "read" | "process" | "send"
  lastTitle,    \* lastTitle[f]: watchFeed's local lastTitle
  feed,         \* feed[f]: items returned by rss.Read
  err,          \* err[f]: rss.Read failed
  outMsg,       \* outMsg[f]: message the watcher is blocked sending
  \* ---- download goroutines ----
  downloads,    \* bag of [Name, Title, Link, pc], pc: "delay" | "ticker" | "get"
  \* ---- main's message loop ----
  sinkPc,       \* "recv" | "exec"
  dbExec,       \* UPDATE statements being executed by db.Exec
  \* ---- history ----
  held,         \* values lastTitle[Observed] has taken since startup
  crashes,      \* number of crashes so far
  owed,         \* owed[f]: titles detected before a crash, download not run
  fails,        \* consecutive failed fetches of Observed, up to MaxFails
  scheduled     \* titles of Observed a download was started for in this run

planVars == <<flags, feedCfg, checkImmediate, checkTime, lastCheck>>
schedVars == <<planVars, now>>
clockVars == <<requestDelay, untilTick, tickerBuf, sinceReq>>
envVars == <<server>>
watchVars == <<pc, lastTitle, feed, err, outMsg>>
sinkVars == <<sinkPc, dbExec>>
histVars == <<held, crashes, owed, fails, scheduled>>

vars == <<schedVars, clockVars, envVars, registry, watchVars, downloads,
          sinkVars, histVars>>

\* ---------------------------------------------------------------- bounds
DayLen == 3
MaxInterval == 4
MaxDuration == 4
MaxWeeks == 2
MaxTitle == 1
MaxItems == 2
MaxPending == 0
MaxCrashes == 1
MaxRequestDelay == 2
MaxNow == 4
MaxFails == 2

\* ------------------------------------------------------ program constants
DaysPerWeek == 7
downloadDelay == 30

WeekLen == DaysPerWeek * DayLen
NoTime == 0 - 1

\* ------------------------------------------------- time.Time on the model
\* fromTime.Weekday(): Sunday = 0 .. Saturday = 6
Weekday(t) == (t \div DayLen) % DaysPerWeek

\* time.Date(t.Year(), t.Month(), t.Day()+dayDiff, 0, 0, secs, 0, time.Local)
Date(t, dayDiff, secs) == (t - (t % DayLen)) + dayDiff * DayLen + secs

\* t.AddDate(0, 0, days)
AddDate(t, days) == t + days * DayLen

\* ------------------------------------------------ RapidWindowCalculator
lastRapidStartTime_NoTodayCheck(fromTime, dow, secs) ==
  LET d0 == dow - Weekday(fromTime)
      d1 == IF d0 > 0 THEN d0 - DaysPerWeek ELSE d0
  IN  Date(fromTime, d1, secs)

lastRapidStartTime(fromTime, dow, secs) ==
  LET d0 == dow - Weekday(fromTime)
      d1 == IF d0 > 0 THEN d0 - DaysPerWeek ELSE d0
      d2 == IF d1 = 0 /\ fromTime < Date(fromTime, 0, secs)
            THEN d1 - DaysPerWeek ELSE d1
  IN  Date(fromTime, d2, secs)

\* the week is not added
nextRapidStartTime_NoAddDate(fromTime, dow, secs) ==
  lastRapidStartTime(fromTime, dow, secs)

nextRapidStartTime(fromTime, dow, secs) ==
  lastRapidStartTime(AddDate(fromTime, DaysPerWeek), dow, secs)

isRapid(fromTime, dow, secs) ==
  LET rapidStartTime == lastRapidStartTime(fromTime, dow, secs)
  IN  \/ fromTime = rapidStartTime
      \/ /\ fromTime > rapidStartTime
         /\ fromTime < rapidStartTime + flags.rapidCheckDuration

\* ------------------------------------------------------- CheckScheduler
\* no clamp to the next rapid start
nextCheckTime_NoClamp(lastCheckTime, dow, secs) ==
  IF isRapid(lastCheckTime, dow, secs)
    THEN lastCheckTime + flags.rapidCheckInterval
    ELSE lastCheckTime + flags.checkInterval

\* the clamp computed from the advanced time instead of lastCheckTime
nextCheckTime_ClampFromAdvanced(lastCheckTime, dow, secs) ==
  LET adv == IF isRapid(lastCheckTime, dow, secs)
             THEN lastCheckTime + flags.rapidCheckInterval
             ELSE lastCheckTime + flags.checkInterval
      nextRapidTime == nextRapidStartTime(adv, dow, secs)
  IN  IF adv > nextRapidTime THEN nextRapidTime ELSE adv

nextCheckTime(lastCheckTime, dow, secs) ==
  LET adv == IF isRapid(lastCheckTime, dow, secs)
             THEN lastCheckTime + flags.rapidCheckInterval
             ELSE lastCheckTime + flags.checkInterval
      nextRapidTime == nextRapidStartTime(lastCheckTime, dow, secs)
  IN  IF adv > nextRapidTime THEN nextRapidTime ELSE adv

\* math.Ceil(a / b) for b > 0
Ceil(a, b) == 0 - ((0 - a) \div b)

\* the first grid point strictly after startTime is taken
firstCheckTime_NextGridPoint(startTime, dow, secs) ==
  LET rapid == isRapid(startTime, dow, secs)
      baseTime == IF rapid
                    THEN lastRapidStartTime(startTime, dow, secs)
                    ELSE lastRapidStartTime(startTime, dow, secs)
                           + flags.rapidCheckDuration
      currentCheckInterval == IF rapid THEN flags.rapidCheckInterval
                                       ELSE flags.checkInterval
      secondsOffsetFromBase == startTime - baseTime
      nextCheckOffsetFromBase ==
        currentCheckInterval
          * ((secondsOffsetFromBase \div currentCheckInterval) + 1)
      nextCheck == baseTime + nextCheckOffsetFromBase
      nextRapidTime == nextRapidStartTime(startTime, dow, secs)
  IN  IF nextCheck > nextRapidTime THEN nextRapidTime ELSE nextCheck

\* lines 320-343, for a positive active interval (the offsets are whole
\* numbers of time units, so the conversions to and from float64 are exact)
firstCheckTime(startTime, dow, secs) ==
  LET rapid == isRapid(startTime, dow, secs)
      baseTime == IF rapid
                    THEN lastRapidStartTime(startTime, dow, secs)
                    ELSE lastRapidStartTime(startTime, dow, secs)
                           + flags.rapidCheckDuration
      currentCheckInterval == IF rapid THEN flags.rapidCheckInterval
                                       ELSE flags.checkInterval
      secondsOffsetFromBase == startTime - baseTime
      nextCheckOffsetFromBase ==
        currentCheckInterval * Ceil(secondsOffsetFromBase, currentCheckInterval)
      nextCheck == baseTime + nextCheckOffsetFromBase
      nextRapidTime == nextRapidStartTime(startTime, dow, secs)
  IN  IF nextCheck > nextRapidTime THEN nextRapidTime ELSE nextCheck

\* --------------------------------------------------------- data model
Feeds == {"a", "b"}
Observed == "a"
\* the lastTitle column of every row when the process first starts
StartTitle == 0
Titles == 0..MaxTitle
NoMsg == [Name |-> "", Title |-> 0 - 1]

\* an rss item: Title and Link (the link is numbered like the title)
Item(t) == [Title |-> t, Link |-> t]

\* updatedTitleMessage{name, title}
updatedTitleMessage(name, title) == [Name |-> name, Title |-> title]

Rows == DOMAIN registry

\* the first n elements of s
Take(s, n) == SubSeq(s, 1, IF Len(s) < n THEN Len(s) ELSE n)

RECURSIVE SeqToBag(_)
SeqToBag(s) ==
  IF s = <<>> THEN EmptyBag ELSE SetToBag({Head(s)}) (+) SeqToBag(Tail(s))

\* ------------------------------------------------- scheduler, state part
SchedInit ==
  /\ flags \in [rapidCheckInterval : 0..MaxInterval,
                checkInterval : 0..MaxInterval,
                rapidCheckDuration : 0..MaxDuration]
  /\ feedCfg \in [dayOfWeek : 0..(DaysPerWeek - 1), seconds : 0..(DayLen - 1)]
  /\ checkImmediate = TRUE
  /\ checkTime \in 0..(WeekLen - 1)
  /\ lastCheck = NoTime
  /\ now = NoTime

\* the plan is not followed in the specifications of the goroutines
SchedIdle ==
  /\ flags = [rapidCheckInterval |-> 1, checkInterval |-> 1,
              rapidCheckDuration |-> 1]
  /\ feedCfg = [dayOfWeek |-> 0, seconds |-> 0]
  /\ checkImmediate = TRUE
  /\ checkTime = 0
  /\ lastCheck = NoTime
  /\ now = NoTime

\* ------------------------------------------------------- process start
\* main, lines 403-441: ticker created, rows read, one watchFeed per row
ProcInit(rows, delay) ==
  /\ requestDelay = delay
  /\ untilTick = requestDelay
  /\ tickerBuf = 0
  /\ sinceReq = requestDelay
  /\ server = [f \in rows |-> <<Item(StartTitle)>>]
  /\ registry = [f \in rows |-> StartTitle]
  /\ pc = [f \in rows |-> "sleep"]
  /\ lastTitle = [f \in rows |-> registry[f]]
  /\ feed = [f \in rows |-> <<>>]
  /\ err = [f \in rows |-> FALSE]
  /\ outMsg = [f \in rows |-> NoMsg]
  /\ downloads = EmptyBag
  /\ sinkPc = "recv"
  /\ dbExec = {}
  /\ held = {registry[f] : f \in rows \cap {Observed}}
  /\ crashes = 0
  /\ owed = [f \in rows |-> {}]
  /\ fails = 0
  /\ scheduled = {}

\* --------------------------------------------------------- environment
\* one time unit passes; the runtime delivers a tick of requestDelayTicker
\* every requestDelay units, and drops it when the channel already holds one
Tick ==
  /\ IF untilTick = 1
       THEN /\ untilTick' = requestDelay
            /\ tickerBuf' = 1
       ELSE /\ untilTick' = untilTick - 1
            /\ UNCHANGED tickerBuf
  /\ sinceReq' = IF sinceReq < requestDelay THEN sinceReq + 1 ELSE sinceReq
  /\ UNCHANGED <<requestDelay, schedVars, envVars, registry, watchVars, downloads,
                 sinkVars, histVars>>

\* the publisher puts an item at the head of the feed; the feed keeps the
\* MaxItems newest entries
Publish(f, t) ==
  /\ server' = [server EXCEPT ![f] = Take(<<Item(t)>> \o server[f], MaxItems)]
  /\ UNCHANGED <<schedVars, clockVars, registry, watchVars, downloads,
                 sinkVars, histVars>>

\* the publisher adds a new item: its title is the successor of the head's
PublishNew(f) ==
  /\ server[f] # <<>>
  /\ server[f][1].Title < MaxTitle
  /\ Publish(f, server[f][1].Title + 1)

\* ---------------------------------------------------- request ticker
\* <-requestDelayTicker followed by the start of the outbound request
TakeTick ==
  /\ tickerBuf = 1
  /\ tickerBuf' = 0
  /\ sinceReq' = 0
  /\ UNCHANGED <<requestDelay, untilTick>>

\* ----------------------------------------------------------- watchFeed
\* line 360: time.Sleep returns (the model starts an iteration only while at
\* most MaxPending download goroutines are alive, which bounds their number)
Wake(f) ==
  /\ pc[f] = "sleep"
  /\ BagCardinality(downloads) <= MaxPending
  /\ pc' = [pc EXCEPT ![f] = "ticker"]
  /\ UNCHANGED <<schedVars, clockVars, envVars, registry, lastTitle, feed,
                 err, outMsg, downloads, sinkVars, histVars>>

\* the downloads run in the watcher: no fetch while one is alive
FetchStart_AfterDownloads(f) ==
  /\ pc[f] = "ticker"
  /\ downloads = EmptyBag
  /\ TakeTick
  /\ pc' = [pc EXCEPT ![f] = "read"]
  /\ UNCHANGED <<schedVars, envVars, registry, lastTitle, feed, err, outMsg,
                 downloads, sinkVars, histVars>>

\* lines 364-366: the permit is received and rss.Read is called
FetchStart(f) ==
  /\ pc[f] = "ticker"
  /\ TakeTick
  /\ pc' = [pc EXCEPT ![f] = "read"]
  /\ UNCHANGED <<schedVars, envVars, registry, lastTitle, feed, err, outMsg,
                 downloads, sinkVars, histVars>>

\* line 366: rss.Read returns the served list, or an error
FetchReturn(f) ==
  /\ pc[f] = "read"
  /\ \E ok \in BOOLEAN :
       /\ feed' = [feed EXCEPT ![f] = IF ok THEN server[f] ELSE <<>>]
       /\ err' = [err EXCEPT ![f] = ~ok]
  /\ pc' = [pc EXCEPT ![f] = "process"]
  /\ UNCHANGED <<schedVars, clockVars, envVars, registry, lastTitle, outMsg,
                 downloads, sinkVars, histVars>>

\* the scan skips the matching item and goes on
RECURSIVE scan_Continue(_, _, _)
scan_Continue(items, i, last) ==
  IF i > Len(items) THEN <<>>
  ELSE IF items[i].Title = last THEN scan_Continue(items, i + 1, last)
  ELSE <<items[i]>> \o scan_Continue(items, i + 1, last)

\* the scan starts at the second item
RECURSIVE scan_SkipHead(_, _, _)
scan_SkipHead(items, i, last) ==
  IF i > Len(items) THEN <<>>
  ELSE IF i = 1 THEN scan_SkipHead(items, 2, last)
  ELSE IF items[i].Title = last THEN <<>>
  ELSE <<items[i]>> \o scan_SkipHead(items, i + 1, last)

\* lines 371-389: the items a download goroutine is started for, from index i
RECURSIVE scan(_, _, _)
scan(items, i, last) ==
  IF i > Len(items) THEN <<>>
  ELSE IF items[i].Title = last THEN <<>>
  ELSE <<items[i]>> \o scan(items, i + 1, last)

\* lines 377-388: the goroutine started for one item
Download(f, item) ==
  [Name |-> f, Title |-> item.Title, Link |-> item.Link,
   pc |-> IF downloadDelay > 0 THEN "delay" ELSE "ticker"]

Spawned(f, items) ==
  SeqToBag([i \in 1..Len(items) |-> Download(f, items[i])])

\* the message is sent before lastTitle is assigned
UpdateLastSeen_SendFirst(f) ==
  IF Len(feed[f]) > 0 /\ lastTitle[f] # feed[f][1].Title
    THEN /\ outMsg' = [outMsg EXCEPT ![f] = updatedTitleMessage(f, lastTitle[f])]
         /\ lastTitle' = [lastTitle EXCEPT ![f] = feed[f][1].Title]
         /\ held' = IF f = Observed THEN held \cup {lastTitle'[f]} ELSE held
         /\ pc' = [pc EXCEPT ![f] = "send"]
    ELSE /\ pc' = [pc EXCEPT ![f] = "sleep"]
         /\ UNCHANGED <<lastTitle, outMsg, held>>

\* the message is sent and lastTitle is not assigned
UpdateLastSeen_Keep(f) ==
  IF Len(feed[f]) > 0 /\ lastTitle[f] # feed[f][1].Title
    THEN /\ outMsg' = [outMsg EXCEPT ![f] =
                         updatedTitleMessage(f, feed[f][1].Title)]
         /\ pc' = [pc EXCEPT ![f] = "send"]
         /\ UNCHANGED <<lastTitle, held>>
    ELSE /\ pc' = [pc EXCEPT ![f] = "sleep"]
         /\ UNCHANGED <<lastTitle, outMsg, held>>

\* the title of the last item of the list is taken
UpdateLastSeen_Oldest(f) ==
  IF Len(feed[f]) > 0 /\ lastTitle[f] # feed[f][Len(feed[f])].Title
    THEN /\ lastTitle' = [lastTitle EXCEPT ![f] = feed[f][Len(feed[f])].Title]
         /\ held' = IF f = Observed THEN held \cup {lastTitle'[f]} ELSE held
         /\ outMsg' = [outMsg EXCEPT ![f] = updatedTitleMessage(f, lastTitle'[f])]
         /\ pc' = [pc EXCEPT ![f] = "send"]
    ELSE /\ pc' = [pc EXCEPT ![f] = "sleep"]
         /\ UNCHANGED <<lastTitle, outMsg, held>>

\* lines 391-398: update last seen title, up to the blocking send
UpdateLastSeen(f) ==
  IF Len(feed[f]) > 0 /\ lastTitle[f] # feed[f][1].Title
    THEN /\ lastTitle' = [lastTitle EXCEPT ![f] = feed[f][1].Title]
         /\ held' = IF f = Observed THEN held \cup {lastTitle'[f]} ELSE held
         /\ outMsg' = [outMsg EXCEPT ![f] = updatedTitleMessage(f, lastTitle'[f])]
         /\ pc' = [pc EXCEPT ![f] = "send"]
    ELSE /\ pc' = [pc EXCEPT ![f] = "sleep"]
         /\ UNCHANGED <<lastTitle, outMsg, held>>

\* lines 367-399: the result of rss.Read is handled
Process(f) ==
  /\ pc[f] = "process"
  /\ IF err[f]
       THEN /\ pc' = [pc EXCEPT ![f] = "sleep"]
            /\ UNCHANGED <<lastTitle, outMsg, held, downloads, owed>>
       ELSE LET new == scan(feed[f], 1, lastTitle[f])
            IN  /\ downloads' = downloads (+) Spawned(f, new)
                /\ owed' = [owed EXCEPT ![f] =
                              owed[f] \ {new[i].Title : i \in 1..Len(new)}]
                /\ UpdateLastSeen(f)
  /\ feed' = [feed EXCEPT ![f] = <<>>]
  /\ err' = [err EXCEPT ![f] = FALSE]
  /\ UNCHANGED <<schedVars, clockVars, envVars, registry, sinkVars, crashes,
                 fails, scheduled>>

\* ------------------------------------------------- download goroutines
\* lines 378-380: the sleep of downloadDelay seconds is over
DelayDone(d) ==
  /\ d.pc = "delay"
  /\ downloads' = (downloads (-) SetToBag({d}))
                    (+) SetToBag({[d EXCEPT !.pc = "ticker"]})
  /\ UNCHANGED <<schedVars, clockVars, envVars, registry, watchVars,
                 sinkVars, histVars>>

\* lines 381-382: the permit is received and downloadUrl is called
DownloadStart(d) ==
  /\ d.pc = "ticker"
  /\ TakeTick
  /\ downloads' = (downloads (-) SetToBag({d}))
                    (+) SetToBag({[d EXCEPT !.pc = "get"]})
  /\ UNCHANGED <<schedVars, envVars, registry, watchVars, sinkVars, histVars>>

\* lines 382-387: downloadUrl returns, with or without an error
DownloadDone(d) ==
  /\ d.pc = "get"
  /\ downloads' = downloads (-) SetToBag({d})
  /\ UNCHANGED <<schedVars, clockVars, envVars, registry, watchVars,
                 sinkVars, histVars>>

\* ------------------------------------------------- main's message loop
\* the UPDATE is handed to a goroutine and the loop receives again
SinkRecv_Async(f) ==
  /\ sinkPc = "recv"
  /\ pc[f] = "send"
  /\ dbExec' = dbExec \cup {outMsg[f]}
  /\ sinkPc' = "recv"
  /\ pc' = [pc EXCEPT ![f] = "sleep"]
  /\ outMsg' = [outMsg EXCEPT ![f] = NoMsg]
  /\ UNCHANGED <<schedVars, clockVars, envVars, registry, lastTitle, feed,
                 err, downloads, histVars>>

\* lines 444-446: msg := <-messages meets the send of watcher f (line 396),
\* and db.Exec is called
SinkRecv(f) ==
  /\ sinkPc = "recv"
  /\ pc[f] = "send"
  /\ dbExec' = dbExec \cup {outMsg[f]}
  /\ sinkPc' = "exec"
  /\ pc' = [pc EXCEPT ![f] = "sleep"]
  /\ outMsg' = [outMsg EXCEPT ![f] = NoMsg]
  /\ UNCHANGED <<schedVars, clockVars, envVars, registry, lastTitle, feed,
                 err, downloads, histVars>>

\* the UPDATE has no WHERE clause: every row is set
SinkExecDone_AllRows(m) ==
  /\ m \in dbExec
  /\ \E ok \in BOOLEAN :
       registry' = IF ok THEN [f \in Rows |-> m.Title] ELSE registry
  /\ dbExec' = dbExec \ {m}
  /\ sinkPc' = "recv"
  /\ UNCHANGED <<schedVars, clockVars, envVars, watchVars, downloads,
                 histVars>>

\* a failed UPDATE ends the message loop
SinkExecDone_StopOnError(m) ==
  /\ m \in dbExec
  /\ \E ok \in BOOLEAN :
       /\ registry' = IF ok THEN [registry EXCEPT ![m.Name] = m.Title]
                            ELSE registry
       /\ sinkPc' = IF ok THEN "recv" ELSE "stopped"
  /\ dbExec' = dbExec \ {m}
  /\ UNCHANGED <<schedVars, clockVars, envVars, watchVars, downloads,
                 histVars>>

\* lines 445-461: db.Exec returns, with or without an error; *updateNotifyUrl
\* is empty (its default), so no notification goroutine is started
SinkExecDone(m) ==
  /\ m \in dbExec
  /\ \E ok \in BOOLEAN :
       registry' = IF ok THEN [registry EXCEPT ![m.Name] = m.Title]
                         ELSE registry
  /\ dbExec' = dbExec \ {m}
  /\ sinkPc' = "recv"
  /\ UNCHANGED <<schedVars, clockVars, envVars, watchVars, downloads,
                 histVars>>

\* --------------------------------------------------- crash and restart
\* the process dies and is started again: goroutines, channels and the
\* ticker are gone and main starts over from the registry
Crash ==
  /\ crashes < MaxCrashes
  /\ crashes' = crashes + 1
  /\ owed' = [f \in Rows |-> owed[f] \cup
                {d.Title : d \in {x \in BagToSet(downloads) :
                                    x.Name = f /\ x.pc \in {"delay", "ticker"}}}]
  /\ untilTick' = requestDelay
  /\ tickerBuf' = 0
  /\ sinceReq' = requestDelay
  /\ UNCHANGED requestDelay
  /\ pc' = [f \in Rows |-> "sleep"]
  /\ lastTitle' = [f \in Rows |-> registry[f]]
  /\ feed' = [f \in Rows |-> <<>>]
  /\ err' = [f \in Rows |-> FALSE]
  /\ outMsg' = [f \in Rows |-> NoMsg]
  /\ downloads' = EmptyBag
  /\ sinkPc' = "recv"
  /\ dbExec' = {}
  /\ held' = {registry[f] : f \in Rows \cap {Observed}}
  /\ UNCHANGED <<schedVars, envVars, registry, fails, scheduled>>

\* ------------------------------------------------------ specifications
\* every feed of the table: publishers that only add new items
Init == SchedIdle /\ ProcInit(Feeds, MaxRequestDelay)

Next ==
  \/ Tick
  \/ \E f \in Rows : PublishNew(f)
  \/ \E f \in Rows : Wake(f)
  \/ \E f \in Rows : FetchStart(f)
  \/ \E f \in Rows : FetchReturn(f)
  \/ \E f \in Rows : Process(f)
  \/ \E d \in BagToSet(downloads) : DelayDone(d)
  \/ \E d \in BagToSet(downloads) : DownloadStart(d)
  \/ \E d \in BagToSet(downloads) : DownloadDone(d)
  \/ \E f \in Rows : SinkRecv(f)
  \/ \E m \in dbExec : SinkExecDone(m)

Spec == Init /\ [][Next]_vars

\* one feed whose publisher may put any title at the head of the list, so
\* that rss.Read can return any list of at most MaxItems items
FeedInit == SchedIdle /\ ProcInit({Observed}, 1)

FeedNext ==
  \/ Tick
  \/ \E f \in Rows, t \in Titles : Publish(f, t)
  \/ \E f \in Rows : Wake(f)
  \/ \E f \in Rows : FetchStart(f)
  \/ \E f \in Rows : FetchReturn(f)
  \/ \E f \in Rows : Process(f)
  \/ \E d \in BagToSet(downloads) : DelayDone(d)
  \/ \E d \in BagToSet(downloads) : DownloadStart(d)
  \/ \E d \in BagToSet(downloads) : DownloadDone(d)
  \/ \E f \in Rows : SinkRecv(f)
  \/ \E m \in dbExec : SinkExecDone(m)

SpecFeed == FeedInit /\ [][FeedNext]_vars

\* one feed whose publisher only adds new items, with crashes and restarts
CrashInit == SchedIdle /\ ProcInit({Observed}, MaxRequestDelay)

CrashNext ==
  \/ Tick
  \/ \E f \in Rows : PublishNew(f)
  \/ \E f \in Rows : Wake(f)
  \/ \E f \in Rows : FetchStart(f)
  \/ \E f \in Rows : FetchReturn(f)
  \/ \E f \in Rows : Process(f)
  \/ \E d \in BagToSet(downloads) : DelayDone(d)
  \/ \E d \in BagToSet(downloads) : DownloadStart(d)
  \/ \E d \in BagToSet(downloads) : DownloadDone(d)
  \/ \E f \in Rows : SinkRecv(f)
  \/ \E m \in dbExec : SinkExecDone(m)
  \/ Crash

SpecCrash == CrashInit /\ [][CrashNext]_vars

\* the plan is followed for MaxWeeks weeks, or for MaxWeeks days from the
\* start instant where that instant is part of the state
PlanEnd == IF now = NoTime THEN MaxWeeks * WeekLen ELSE now + MaxWeeks * DayLen

\* the plan of one watcher: watchFeed, line 361
PlanNext ==
  /\ checkTime # NoTime
  /\ checkTime < PlanEnd
  /\ lastCheck' = checkTime
  /\ checkTime' = nextCheckTime(checkTime, feedCfg.dayOfWeek, feedCfg.seconds)
  /\ UNCHANGED <<flags, feedCfg, checkImmediate, now, clockVars, envVars,
                 registry, watchVars, downloads, sinkVars, histVars>>

SchedNext == PlanNext

\* no goroutine is followed in the specification of the plan
PlanInit == SchedInit /\ ProcInit({}, 1)

SpecSched == PlanInit /\ [][SchedNext]_vars

\* watchFeed, lines 350-355: the initial check time
StartWatch ==
  /\ checkTime = NoTime
  /\ checkTime' = IF checkImmediate
                    THEN now
                    ELSE firstCheckTime(now, feedCfg.dayOfWeek, feedCfg.seconds)
  /\ UNCHANGED <<flags, feedCfg, checkImmediate, lastCheck, now, clockVars,
                 envVars, registry, watchVars, downloads, sinkVars, histVars>>

\* a watcher that is about to start at the instant now, with positive
\* intervals (with an interval of 0 firstCheckTime converts a NaN to an
\* integer, which is specific to the build)
StartInit ==
  /\ flags \in [rapidCheckInterval : 1..MaxInterval,
                checkInterval : 1..MaxInterval,
                rapidCheckDuration : 0..MaxDuration]
  /\ feedCfg \in [dayOfWeek : 0..(DaysPerWeek - 1), seconds : 0..(DayLen - 1)]
  /\ checkImmediate \in BOOLEAN
  /\ checkTime = NoTime
  /\ lastCheck = NoTime
  /\ now \in 0..(WeekLen - 1)

WatchInit == StartInit /\ ProcInit({}, 1)

StartNext ==
  \/ StartWatch
  \/ PlanNext

\* the start of one watcher and its plan
SpecStart == WatchInit /\ [][StartNext]_vars

\* ------------------------------------- one watcher on the wall clock
\* one time unit passes on the wall clock and for the ticker
ClockTick ==
  /\ now < MaxNow
  /\ now' = now + 1
  /\ IF untilTick = 1
       THEN /\ untilTick' = requestDelay
            /\ tickerBuf' = 1
       ELSE /\ untilTick' = untilTick - 1
            /\ UNCHANGED tickerBuf
  /\ sinceReq' = IF sinceReq < requestDelay THEN sinceReq + 1 ELSE sinceReq
  /\ UNCHANGED <<requestDelay, planVars, envVars, registry, watchVars, downloads,
                 sinkVars, histVars>>

\* the feed drops its oldest item
Expire(f) ==
  /\ Len(server[f]) > 1
  /\ server' = [server EXCEPT ![f] = SubSeq(server[f], 1, Len(server[f]) - 1)]
  /\ UNCHANGED <<schedVars, clockVars, registry, watchVars, downloads,
                 sinkVars, histVars>>

\* the next check time is computed from the wall clock
SleepDone_FromNow(f) ==
  /\ pc[f] = "sleep"
  /\ checkTime # NoTime
  /\ now >= checkTime
  /\ lastCheck' = checkTime
  /\ checkTime' = nextCheckTime(now, feedCfg.dayOfWeek, feedCfg.seconds)
  /\ pc' = [pc EXCEPT ![f] = "ticker"]
  /\ UNCHANGED <<flags, feedCfg, checkImmediate, now, clockVars, envVars,
                 registry, lastTitle, feed, err, outMsg, downloads, sinkVars,
                 histVars>>

\* lines 360-361: time.Sleep(checkTime.Sub(time.Now())) returns once the
\* clock has reached checkTime, at once if it is already past it; the next
\* check time is computed from checkTime
SleepDone(f) ==
  /\ pc[f] = "sleep"
  /\ checkTime # NoTime
  /\ now >= checkTime
  /\ lastCheck' = checkTime
  /\ checkTime' = nextCheckTime(checkTime, feedCfg.dayOfWeek, feedCfg.seconds)
  /\ pc' = [pc EXCEPT ![f] = "ticker"]
  /\ UNCHANGED <<flags, feedCfg, checkImmediate, now, clockVars, envVars,
                 registry, lastTitle, feed, err, outMsg, downloads, sinkVars,
                 histVars>>

\* a failed fetch ends the watcher
Handle_ExitOnError(f) ==
  /\ pc[f] = "process"
  /\ IF err[f]
       THEN /\ pc' = [pc EXCEPT ![f] = "exit"]
            /\ fails' = IF fails < MaxFails THEN fails + 1 ELSE fails
            /\ UNCHANGED <<lastTitle, outMsg, held, downloads, owed, scheduled>>
       ELSE LET new == scan(feed[f], 1, lastTitle[f])
            IN  /\ downloads' = downloads (+) Spawned(f, new)
                /\ scheduled' = scheduled \cup {new[i].Title : i \in 1..Len(new)}
                /\ fails' = 0
                /\ UpdateLastSeen(f)
                /\ UNCHANGED owed
  /\ feed' = [feed EXCEPT ![f] = <<>>]
  /\ err' = [err EXCEPT ![f] = FALSE]
  /\ UNCHANGED <<schedVars, clockVars, envVars, registry, sinkVars, crashes>>

\* lines 367-399 with the history of the run: the result of rss.Read is
\* handled, failed fetches are counted and scheduled titles recorded
Handle(f) ==
  /\ pc[f] = "process"
  /\ IF err[f]
       THEN /\ pc' = [pc EXCEPT ![f] = "sleep"]
            /\ fails' = IF fails < MaxFails THEN fails + 1 ELSE fails
            /\ UNCHANGED <<lastTitle, outMsg, held, downloads, owed, scheduled>>
       ELSE LET new == scan(feed[f], 1, lastTitle[f])
            IN  /\ downloads' = downloads (+) Spawned(f, new)
                /\ scheduled' = scheduled \cup {new[i].Title : i \in 1..Len(new)}
                /\ fails' = 0
                /\ UpdateLastSeen(f)
                /\ UNCHANGED owed
  /\ feed' = [feed EXCEPT ![f] = <<>>]
  /\ err' = [err EXCEPT ![f] = FALSE]
  /\ UNCHANGED <<schedVars, clockVars, envVars, registry, sinkVars, crashes>>

\* the watcher of one feed, started at the anchor with immediate-check off
LoopStart ==
  /\ flags = [rapidCheckInterval |-> 1, checkInterval |-> 2,
              rapidCheckDuration |-> 1]
  /\ feedCfg = [dayOfWeek |-> 0, seconds |-> 0]
  /\ checkImmediate \in BOOLEAN
  /\ checkTime = NoTime
  /\ lastCheck = NoTime
  /\ now \in 0..1

LoopInit == LoopStart /\ ProcInit({Observed}, 1)

LoopNext ==
  \/ StartWatch
  \/ ClockTick
  \/ \E f \in Rows : PublishNew(f)
  \/ \E f \in Rows : Expire(f)
  \/ \E f \in Rows : SleepDone(f)
  \/ \E f \in Rows : FetchStart(f)
  \/ \E f \in Rows : FetchReturn(f)
  \/ \E f \in Rows : Handle(f)
  \/ \E d \in BagToSet(downloads) : DelayDone(d)
  \/ \E d \in BagToSet(downloads) : DownloadStart(d)
  \/ \E d \in BagToSet(downloads) : DownloadDone(d)
  \/ \E f \in Rows : SinkRecv(f)
  \/ \E m \in dbExec : SinkExecDone(m)

\* one watcher whose plan and wall clock are followed, on a feed that only
\* adds new items at the head and drops old ones at the end
SpecLoop == LoopInit /\ [][LoopNext]_vars

\* ------------------------------------------------ writes that succeed
\* lines 445-446: db.Exec returns without an error
WriteDone(m) ==
  /\ SinkExecDone(m)
  /\ registry'[m.Name] = m.Title

WritesInit == SchedIdle /\ ProcInit(Feeds, 1)

WritesNext ==
  \/ Tick
  \/ \E t \in Titles : Publish(Observed, t)
  \/ \E f \in Rows \ {Observed} : PublishNew(f)
  \/ \E f \in Rows : Wake(f)
  \/ \E f \in Rows : FetchStart(f)
  \/ \E f \in Rows : FetchReturn(f)
  \/ \E f \in Rows : Process(f)
  \/ \E d \in BagToSet(downloads) : DelayDone(d)
  \/ \E d \in BagToSet(downloads) : DownloadStart(d)
  \/ \E d \in BagToSet(downloads) : DownloadDone(d)
  \/ \E f \in Rows : SinkRecv(f)
  \/ \E m \in dbExec : WriteDone(m)

\* every feed of the table, the registry writes succeed; the publisher of
\* Observed may put any title at the head of its list
SpecWrites == WritesInit /\ [][WritesNext]_vars

\* ------------------------------------------------ fair scheduling
\* the download goroutines that have not yet started their request
Waiting == {d \in BagToSet(downloads) : d.pc \in {"delay", "ticker"}}

\* line 360: time.Sleep returns (the model starts an iteration only while at
\* most MaxPending kinds of download goroutine wait for their request;
\* requests that never return do not count)
WakeUp(f) ==
  /\ pc[f] = "sleep"
  /\ Cardinality(Waiting) <= MaxPending
  /\ pc' = [pc EXCEPT ![f] = "ticker"]
  /\ UNCHANGED <<schedVars, clockVars, envVars, registry, lastTitle, feed,
                 err, outMsg, downloads, sinkVars, histVars>>

LiveInit == SchedIdle /\ ProcInit(Feeds, MaxRequestDelay)

LiveNext ==
  \/ Tick
  \/ \E f \in Rows : PublishNew(f)
  \/ \E f \in Rows : WakeUp(f)
  \/ \E f \in Rows : FetchStart(f)
  \/ \E f \in Rows : FetchReturn(f)
  \/ \E f \in Rows : Process(f)
  \/ \E d \in BagToSet(downloads) : DelayDone(d)
  \/ \E d \in BagToSet(downloads) : DownloadStart(d)
  \/ \E d \in BagToSet(downloads) : DownloadDone(d)
  \/ \E f \in Rows : SinkRecv(f)
  \/ \E m \in dbExec : SinkExecDone(m)

\* every feed of the table under fair scheduling.  The ticker ticks; every
\* goroutine that can run does run; a goroutine blocked on a channel is served
\* in its turn (the runtime queues the receivers of requestDelayTicker and
\* the senders of messages first come, first served), hence the strong
\* fairness of FetchStart, DownloadStart and SinkRecv.  No fairness for the
\* return of a download, nor for the return of the fetch of a feed other
\* than Observed: these requests may never return.
SpecLive ==
  /\ LiveInit
  /\ [][LiveNext]_vars
  /\ WF_vars(Tick)
  /\ \A f \in Feeds : WF_vars(WakeUp(f))
  /\ \A f \in Feeds : SF_vars(FetchStart(f))
  /\ WF_vars(FetchReturn(Observed))
  /\ \A f \in Feeds : WF_vars(Process(f))
  /\ \A f \in Feeds : SF_vars(SinkRecv(f))
  /\ WF_vars(\E m \in dbExec : SinkExecDone(m))
  /\ WF_vars(\E d \in BagToSet(downloads) : DelayDone(d))
  /\ SF_vars(\E d \in BagToSet(downloads) : DownloadStart(d))

\* ------------------------------------------------ reference definitions
\* t is an occurrence of the weekly (dow, secs) anchor
IsAnchor(t, dow, secs) == t % WeekLen = dow * DayLen + secs

\* the latest anchor occurrence at or before t
AnchorAtOrBefore(t, dow, secs) ==
  CHOOSE a \in (t - WeekLen + 1)..t : IsAnchor(a, dow, secs)

\* the earliest anchor occurrence strictly after t
AnchorAfter(t, dow, secs) ==
  CHOOSE a \in (t + 1)..(t + WeekLen) : IsAnchor(a, dow, secs)

\* the index of the first item whose title is last, Len(items) + 1 if none
FirstMatch(items, last) ==
  IF \E i \in 1..Len(items) : items[i].Title = last
    THEN CHOOSE i \in 1..Len(items) :
           /\ items[i].Title = last
           /\ \A j \in 1..(i - 1) : items[j].Title # last
    ELSE Len(items) + 1

\* watcher f handles the result of rss.Read in this step
ProcessStep(f) == pc[f] = "process" /\ pc'[f] # "process" /\ crashes' = crashes

\* a permit is received and an outbound request starts in this step
RequestStep == tickerBuf = 1 /\ tickerBuf' = 0 /\ crashes' = crashes

\* the base of the grid that is active at s, and its interval
GridBase(s, dow, secs) ==
  IF isRapid(s, dow, secs)
    THEN lastRapidStartTime(s, dow, secs)
    ELSE lastRapidStartTime(s, dow, secs) + flags.rapidCheckDuration

ActiveInterval(s, dow, secs) ==
  IF isRapid(s, dow, secs) THEN flags.rapidCheckInterval ELSE flags.checkInterval

\* s is a point of the grid that is active at s
OnGrid(s, dow, secs) ==
  (s - GridBase(s, dow, secs)) % ActiveInterval(s, dow, secs) = 0

\* s1 and s2 have the same classification and the same last rapid start, and
\* lie after the same grid point g, at or before the next one
SameBucket(s1, s2, dow, secs) ==
  /\ isRapid(s1, dow, secs) = isRapid(s2, dow, secs)
  /\ lastRapidStartTime(s1, dow, secs) = lastRapidStartTime(s2, dow, secs)
  /\ LET base == GridBase(s1, dow, secs)
         int == ActiveInterval(s1, dow, secs)
     IN  \E g \in (s1 - int)..(s1 - 1) :
           /\ (g - base) % int = 0
           /\ g < s2 /\ s2 <= g + int

cfgDay == feedCfg.dayOfWeek
cfgSec == feedCfg.seconds

\* --------------------------------------------------------------- claims

\* C1: any two outbound requests (feed fetch or item download, by any
\* tasks) are started at least requestDelay apart, also after a period in
\* which no task asked for a permit.
C1_RequestSpacing ==
  [][RequestStep => sinceReq >= requestDelay]_vars

\* C2: the downloads started in an iteration whose fetch succeeded are
\* exactly those of the items that precede the first item whose title equals
\* lastTitle: the whole list when none matches, none when item[0] matches.
C2_DedupScan ==
  [][\A f \in Rows :
       (ProcessStep(f) /\ ~err[f]) =>
         LET k == FirstMatch(feed[f], lastTitle[f])
             started(d) == Cardinality({i \in 1..(k - 1) :
                                          Download(f, feed[f][i]) = d})
         IN  \A d \in BagToSet(downloads) \cup BagToSet(downloads')
                      \cup {Download(f, feed[f][i]) : i \in 1..Len(feed[f])} :
               CopiesIn(d, downloads') = CopiesIn(d, downloads) + started(d)
    ]_vars

\* C2 witness: the list [1, 0] was scanned against lastTitle 0 and exactly
\* the download of item 1 was started
C2_Witness ==
  /\ pc[Observed] = "send"
  /\ server[Observed] = <<Item(1), Item(StartTitle)>>
  /\ held = {StartTitle, 1}
  /\ downloads = SetToBag({Download(Observed, Item(1))})

\* C3: an iteration whose fetch succeeds with a non-empty list whose item[0]
\* title differs from lastTitle sets lastTitle to that title and sends
\* exactly one message {name, item[0].title}, lastTitle being already set
\* when the message loop can receive it; every other iteration sends nothing
\* and leaves lastTitle unchanged.
C3_TitleUpdate ==
  [][\A f \in Rows :
       /\ ProcessStep(f) =>
            IF ~err[f] /\ feed[f] # <<>> /\ feed[f][1].Title # lastTitle[f]
              THEN /\ lastTitle'[f] = feed[f][1].Title
                   /\ pc'[f] = "send"
                   /\ outMsg'[f] = updatedTitleMessage(f, feed[f][1].Title)
              ELSE /\ lastTitle'[f] = lastTitle[f]
                   /\ pc'[f] = "sleep"
                   /\ outMsg'[f] = NoMsg
       /\ ~ProcessStep(f) =>
            /\ lastTitle'[f] = lastTitle[f]
            /\ pc'[f] = "send" => (pc[f] = "send" /\ outMsg'[f] = outMsg[f])
       /\ (pc[f] = "send" /\ pc'[f] # "send") =>
            /\ outMsg[f] = updatedTitleMessage(f, lastTitle[f])
            /\ dbExec' = dbExec \cup {outMsg[f]}
            /\ pc'[f] = "sleep"
            /\ outMsg'[f] = NoMsg
    ]_vars

\* C3 witness: the message of a title change has been received by the
\* message loop while the download started in that iteration is pending
C3_Witness ==
  /\ dbExec = {updatedTitleMessage(Observed, lastTitle[Observed])}
  /\ lastTitle[Observed] # StartTitle
  /\ \E d \in BagToSet(downloads) : d.pc = "delay"

\* lastTitle changes only to the item[0] title of a successful fetch
TitleFromHead ==
  lastTitle'[Observed] # lastTitle[Observed] =>
    /\ ProcessStep(Observed)
    /\ ~err[Observed]
    /\ feed[Observed] # <<>>
    /\ lastTitle'[Observed] = feed[Observed][1].Title

\* C4 as stated: lastTitle is the startup value or the item[0] title of a
\* successful fetch, and once replaced it never again takes a value it held
\* earlier.
C4_NeverHeldAgain ==
  [][/\ TitleFromHead
     /\ lastTitle'[Observed] # lastTitle[Observed] =>
          lastTitle'[Observed] \notin held
    ]_vars

\* C4 as amended: lastTitle is the startup value or the item[0] title of a
\* successful fetch: it changes only to the item[0] title of the successful
\* fetch being handled, and that may be a title it held earlier.
C4_TitleFromHead == [][TitleFromHead]_vars

\* C4 witness: lastTitle was replaced by title 1 and is the startup title
\* again
C4_Witness ==
  /\ lastTitle[Observed] = StartTitle
  /\ 1 \in held
  /\ pc[Observed] = "send"

\* C5: after a crash and a restart from the registry, every item detected
\* as new before the crash whose download had not run is scheduled for
\* download again (when a fetch after the restart lists it).
C5_NoMissedDownload ==
  [][\A f \in Rows :
       (crashes > 0 /\ ProcessStep(f) /\ ~err[f]) =>
         \A x \in owed[f] :
           (\E i \in 1..Len(feed[f]) : feed[f][i].Title = x) =>
             \E d \in BagToSet(downloads') : d.Name = f /\ d.Title = x
    ]_vars

\* C6: at most one registry write is in progress, and it is the one main's
\* message loop is executing.
C6_OneWriteAtATime ==
  /\ Cardinality(dbExec) <= 1
  /\ dbExec # {} => sinkPc = "exec"

\* C6 witness: a write is in progress while another watcher is blocked
\* sending its message
C6_Witness ==
  /\ dbExec # {}
  /\ \E f \in Rows : pc[f] = "send" /\ \A m \in dbExec : m.Name # f

\* C7: nextCheckTime(lastCheck) is never after nextRapidStart(lastCheck); it
\* is lastCheck plus the rapid interval if isRapid(lastCheck), else plus the
\* normal interval, unless that exceeds nextRapidStart(lastCheck), and then
\* it is nextRapidStart(lastCheck).
C7_Clamp ==
  lastCheck # NoTime =>
    LET nrs == nextRapidStartTime(lastCheck, cfgDay, cfgSec)
        adv == lastCheck + (IF isRapid(lastCheck, cfgDay, cfgSec)
                              THEN flags.rapidCheckInterval
                              ELSE flags.checkInterval)
    IN  /\ checkTime <= nrs
        /\ checkTime = IF adv > nrs THEN nrs ELSE adv

\* C7 witness: the advanced time exceeded the next rapid start and the check
\* time was clamped
C7_Witness ==
  /\ lastCheck # NoTime
  /\ lastCheck + (IF isRapid(lastCheck, cfgDay, cfgSec)
                    THEN flags.rapidCheckInterval ELSE flags.checkInterval)
       > nextRapidStartTime(lastCheck, cfgDay, cfgSec)
  /\ checkTime = nextRapidStartTime(lastCheck, cfgDay, cfgSec)

\* C8: with positive intervals the planned check instants increase and no
\* occurrence of the weekly anchor lies strictly between two successive
\* ones: every rapid-window start after the initial instant is a check
\* instant.
C8_AnchorIsCheckInstant ==
  [][(flags.rapidCheckInterval > 0 /\ flags.checkInterval > 0) =>
       /\ checkTime' > checkTime
       /\ \A a \in (checkTime + 1)..checkTime' :
            IsAnchor(a, cfgDay, cfgSec) => a = checkTime'
    ]_vars

\* C8 witness: a normal interval that would have passed the anchor ended
\* exactly on it
C8_Witness ==
  /\ lastCheck # NoTime
  /\ flags.rapidCheckInterval > 0
  /\ flags.checkInterval > 0
  /\ ~isRapid(lastCheck, cfgDay, cfgSec)
  /\ lastCheck + flags.checkInterval > checkTime
  /\ IsAnchor(checkTime, cfgDay, cfgSec)

\* C9: lastRapidStart(reference) is an occurrence of the weekly anchor with
\* lastRapidStart <= reference < lastRapidStart + 7 days, and
\* nextRapidStart(reference) = lastRapidStart(reference) + 7 days.
C9_MostRecentAnchor ==
  LET l == lastRapidStartTime(checkTime, cfgDay, cfgSec)
  IN  /\ IsAnchor(l, cfgDay, cfgSec)
      /\ l <= checkTime
      /\ checkTime < l + WeekLen
      /\ l = AnchorAtOrBefore(checkTime, cfgDay, cfgSec)
      /\ nextRapidStartTime(checkTime, cfgDay, cfgSec) = l + WeekLen
      /\ nextRapidStartTime(checkTime, cfgDay, cfgSec)
           = AnchorAfter(checkTime, cfgDay, cfgSec)

\* C9 witness: a planned check instant on the anchor day, before the anchor
\* second
C9_Witness ==
  /\ lastCheck # NoTime
  /\ Weekday(checkTime) = cfgDay
  /\ checkTime % DayLen < cfgSec

\* C10: isRapid(reference) is true exactly when
\* lastRapidStart <= reference < lastRapidStart + rapidDuration, for every
\* non-negative rapidDuration, 0 included.
C10_RapidWindow ==
  LET l == lastRapidStartTime(checkTime, cfgDay, cfgSec)
  IN  isRapid(checkTime, cfgDay, cfgSec) <=>
        (l <= checkTime /\ checkTime < l + flags.rapidCheckDuration)

\* C11: with immediate-check off and positive intervals and rapidDuration,
\* a watcher started at a later instant s2 plans the instants of the watcher
\* started at s1 < s2: firstCheckTime(s2) is one of the instants the earlier
\* watcher plans, so its plan never steps over firstCheckTime(s2); this also
\* when rapidDuration is not a multiple of rapidInterval.
C11_RestartGrid ==
  (~checkImmediate /\ checkTime # NoTime /\ flags.rapidCheckDuration > 0) =>
    \A s2 \in (now + 1)..(now + WeekLen) :
      LET first == firstCheckTime(s2, cfgDay, cfgSec)
      IN  lastCheck < first => checkTime <= first

\* C12: firstCheckTime gives the same instant for any two start instants of
\* one grid bucket (both after grid point g and at or before g + the active
\* interval, same rapid/normal classification, same lastRapidStart), and a
\* start instant that is a grid point gives that grid point.
C12_BucketConstant ==
  (~checkImmediate /\ checkTime # NoTime /\ lastCheck = NoTime) =>
    /\ \A s2 \in (now - MaxInterval)..(now + MaxInterval) :
         SameBucket(now, s2, cfgDay, cfgSec) =>
           firstCheckTime(s2, cfgDay, cfgSec) = checkTime
    /\ OnGrid(now, cfgDay, cfgSec) => checkTime = now

\* C12 witness: the watcher started between two grid points, another start
\* instant lies in the same bucket, and the first check is the clamped one
C12_Witness ==
  /\ ~checkImmediate
  /\ lastCheck = NoTime
  /\ checkTime # NoTime
  /\ checkTime = nextRapidStartTime(now, cfgDay, cfgSec)
  /\ ~OnGrid(now, cfgDay, cfgSec)
  /\ \E s2 \in (now - MaxInterval)..(now + MaxInterval) :
       s2 # now /\ SameBucket(now, s2, cfgDay, cfgSec)

\* C13: an iteration whose fetch fails starts no download, sends no message,
\* leaves lastTitle, the registry and the planned check time unchanged and
\* goes to sleep; during a streak of failed fetches lastTitle and the plan
\* stay as they were, the watcher leaves its sleep as planned, and the next
\* successful fetch is scanned against that lastTitle.
C13_FetchFailure ==
  [][\A f \in Rows :
       /\ (ProcessStep(f) /\ err[f]) =>
            /\ downloads' = downloads
            /\ scheduled' = scheduled
            /\ lastTitle' = lastTitle
            /\ outMsg' = outMsg
            /\ dbExec' = dbExec
            /\ registry' = registry
            /\ pc'[f] = "sleep"
            /\ checkTime' = checkTime
            /\ lastCheck' = lastCheck
            /\ fails' > 0
       /\ (fails > 0 /\ fails' > 0) => lastTitle' = lastTitle
       /\ (fails > 0 /\ pc[f] = "sleep" /\ pc'[f] # "sleep") =>
            /\ now >= checkTime
            /\ pc'[f] = "ticker"
            /\ lastCheck' = checkTime
            /\ checkTime' = nextCheckTime(checkTime, cfgDay, cfgSec)
       /\ (fails > 0 /\ ProcessStep(f) /\ ~err[f]) =>
            downloads' = downloads
                           (+) Spawned(f, scan(feed[f], 1, lastTitle[f]))
    ]_vars

\* C13 witness: after MaxFails consecutive failed fetches, with a new item
\* on the server, nothing was downloaded or sent, lastTitle is the startup
\* title and the watcher sleeps until its next planned check
C13_Witness ==
  /\ fails = MaxFails
  /\ pc[Observed] = "sleep"
  /\ server[Observed][1].Title # StartTitle
  /\ lastTitle[Observed] = StartTitle
  /\ scheduled = {}
  /\ downloads = EmptyBag
  /\ dbExec = {}
  /\ checkTime = nextCheckTime(lastCheck, cfgDay, cfgSec)

\* C14: when db.Exec returns, with or without an error, the message loop
\* goes back to receiving and the watchers' lastTitle is untouched; the
\* write either leaves the registry as it was (failure) or sets the row of
\* the message's feed to the message's title, which is the title of the
\* latest event that feed has sent: the feed's in-memory lastTitle, unless
\* the watcher is already blocked sending a newer one.
C14_WriteFailure ==
  [][\A m \in dbExec :
       m \notin dbExec' =>
         /\ sinkPc' = "recv"
         /\ lastTitle' = lastTitle
         /\ \/ registry' = registry
            \/ registry' = [registry EXCEPT ![m.Name] = m.Title]
         /\ (registry'[m.Name] = m.Title /\ pc[m.Name] # "send") =>
              registry'[m.Name] = lastTitle[m.Name]
    ]_vars

\* C14 witness: the write of the event with title 1 failed (the registry
\* still holds the startup title) and the loop is executing the write of the
\* feed's next event
C14_Witness ==
  /\ 1 \in held
  /\ registry[Observed] = StartTitle
  /\ dbExec = {updatedTitleMessage(Observed, StartTitle)}
  /\ sinkPc = "exec"

\* C15: on a feed that lists its items newest first with distinct titles,
\* adds new items at the head and drops old ones at the end, no title is
\* scheduled for download in more than one iteration of the watcher (nor
\* twice in one iteration) during one run.
C15_NoDoubleDownload ==
  [][ProcessStep(Observed) =>
       \A d \in BagToSet(downloads') :
         CopiesIn(d, downloads') > CopiesIn(d, downloads) =>
           /\ d.Name = Observed
           /\ d.Title \notin scheduled
           /\ d.Title \in scheduled'
           /\ CopiesIn(d, downloads') = CopiesIn(d, downloads) + 1
    ]_vars

\* C15 witness: the download of item 1 was scheduled in an earlier
\* iteration, the feed has dropped its oldest item, and the watcher has
\* fetched a list that still holds item 1
C15_Witness ==
  /\ scheduled = {1}
  /\ pc[Observed] = "process"
  /\ ~err[Observed]
  /\ feed[Observed] = <<Item(1)>>
  /\ lastTitle[Observed] = 1

\* a step in which checkTime or lastCheck changes, or watcher f leaves its
\* sleep, is the start of the iteration planned for checkTime: the clock has
\* reached checkTime (how far it is past it does not matter), the iteration
\* is the one of checkTime, and the next planned instant is
\* nextCheckTime(checkTime)
PlanStep(f) ==
  (\/ checkTime' # checkTime
   \/ lastCheck' # lastCheck
   \/ pc[f] = "sleep" /\ pc'[f] # "sleep") =>
    \/ /\ checkTime = NoTime
       /\ checkTime' = IF checkImmediate
                         THEN now ELSE firstCheckTime(now, cfgDay, cfgSec)
       /\ lastCheck' = lastCheck
       /\ pc' = pc
    \/ /\ checkTime # NoTime
       /\ pc[f] = "sleep"
       /\ pc'[f] = "ticker"
       /\ now >= checkTime
       /\ lastCheck' = checkTime
       /\ checkTime' = nextCheckTime(checkTime, cfgDay, cfgSec)

\* C16: the planned check instants are a function of the initial check
\* instant and the configuration only: each iteration is the one of the
\* planned instant checkTime and plans nextCheckTime(checkTime), however late
\* the clock is; a watcher that is asleep when its planned instant has been
\* reached or passed can start the iteration at once, and no planned instant
\* is skipped.
C16_PlanAnchored ==
  /\ [][\A f \in Rows : PlanStep(f)]_vars
  /\ [](\A f \in Rows :
          (pc[f] = "sleep" /\ checkTime # NoTime /\ now >= checkTime) =>
            ENABLED SleepDone(f))

\* C16 witness: the watcher has started the iteration of the planned instant
\* lastCheck while the message loop is still writing the title of the
\* iteration before, the clock being past lastCheck and past the next
\* planned instant too
C16_Witness ==
  /\ pc[Observed] = "ticker"
  /\ dbExec = {updatedTitleMessage(Observed, lastTitle[Observed])}
  /\ lastCheck # NoTime
  /\ now > lastCheck
  /\ now > checkTime

\* C17: under fair scheduling and a ticking ticker, whatever downloads and
\* fetches of other feeds are slow, fail or never return, and with download
\* goroutines waiting for a permit of the same ticker, a watcher that waits
\* for a permit eventually receives one and fetches, and the watcher of
\* Observed performs a check again and again.
C17_ChecksGoOn ==
  /\ \A f \in Feeds : (pc[f] = "ticker") ~> (pc[f] = "read")
  /\ []<>(pc[Observed] = "read")

\* C17 witness: Observed waits for a permit, and so does a download
\* goroutine, while another download has not returned and the only tick has
\* just been taken
C17_Witness ==
  /\ pc[Observed] = "ticker"
  /\ tickerBuf = 0
  /\ \E d \in BagToSet(downloads) : d.pc = "get"
  /\ \E d \in BagToSet(downloads) : d.pc = "ticker"

\* the blocked send of watcher f completes in this step
SendReceived(f) == pc[f] = "send" /\ pc'[f] # "send"

\* the messages of feed f the message loop is writing
InWrite(f) == {m \in dbExec : m.Name = f}

\* the message loop is idle and no watcher is blocked in a send
Quiescent ==
  /\ sinkPc = "recv"
  /\ dbExec = {}
  /\ \A f \in Rows : pc[f] # "send"

\* C18: a watcher leaves its send only when the message loop receives the
\* message, which it then writes once: the write sets the row of the
\* message's feed to the message's title and no other row, and the registry
\* changes in no other way.  At most one message of a feed is with the loop
\* and it is the latest one sent, so the writes of a feed follow the order
\* of its sends.  With writes that succeed, the row of a feed that is not
\* sending and has no write in progress holds the watcher's lastTitle; so
\* does every row when no watcher is blocked and the loop is idle.
C18_RegistryFollows ==
  /\ [][/\ \A f \in Rows :
            SendReceived(f) =>
              /\ sinkPc = "recv"
              /\ dbExec = {}
              /\ dbExec' = {outMsg[f]}
              /\ sinkPc' = "exec"
              /\ outMsg'[f] = NoMsg
              /\ registry' = registry
        /\ \A m \in dbExec :
            m \notin dbExec' =>
              /\ registry' = [registry EXCEPT ![m.Name] = m.Title]
              /\ dbExec' = {}
        /\ registry' # registry => \E m \in dbExec : m \notin dbExec'
        /\ (dbExec' # dbExec /\ dbExec' # {}) =>
            \E f \in Rows : SendReceived(f)
       ]_vars
  /\ [](\A f \in Rows :
          /\ pc[f] = "send" =>
               outMsg[f] = updatedTitleMessage(f, lastTitle[f])
          /\ (pc[f] # "send" /\ InWrite(f) # {}) =>
               InWrite(f) = {updatedTitleMessage(f, lastTitle[f])}
          /\ (pc[f] # "send" /\ InWrite(f) = {}) =>
               registry[f] = lastTitle[f])
  /\ [](Quiescent => \A f \in Rows : registry[f] = lastTitle[f])

\* C18 witness: Observed has sent the title 1 and then the startup title
\* again, another feed has sent a title too, every message is written, and
\* the row of Observed holds the title sent last
C18_Witness ==
  /\ Quiescent
  /\ 1 \in held
  /\ lastTitle[Observed] = StartTitle
  /\ registry[Observed] = StartTitle
  /\ \E f \in Rows \ {Observed} : registry[f] # StartTitle

\* C19: with positive intervals every planned check instant is strictly
\* after the one before, the clamp target nextRapidStart(lastCheck) being
\* strictly after lastCheck too, and the first check instant is never before
\* the start instant.
C19_Progress ==
  /\ lastCheck # NoTime =>
       /\ checkTime > lastCheck
       /\ nextRapidStartTime(lastCheck, cfgDay, cfgSec) > lastCheck
  /\ (lastCheck = NoTime /\ checkTime # NoTime) =>
       /\ checkTime >= now
       /\ ~checkImmediate => firstCheckTime(now, cfgDay, cfgSec) >= now

\* C19 witness: a watcher started with immediate-check off made its first
\* check after the start instant, and the step from there was cut short by
\* the clamp to the next rapid start
C19_Witness ==
  /\ ~checkImmediate
  /\ lastCheck # NoTime
  /\ lastCheck > now
  /\ checkTime = nextRapidStartTime(lastCheck, cfgDay, cfgSec)
  /\ checkTime < lastCheck + flags.checkInterval
  /\ checkTime < lastCheck + flags.rapidCheckInterval

\* the kinds of download goroutine started in this step
Started ==
  {d \in BagToSet(downloads') : CopiesIn(d, downloads') > CopiesIn(d, downloads)}

\* C20: in every iteration a message is sent if and only if at least one
\* download is started in it, and then the download of item[0], whose title
\* becomes lastTitle, is one of them; outside the handling of a fetch no
\* download is started and no send begins.
C20_EventIffDownload ==
  [][\A f \in Rows :
       /\ ProcessStep(f) =>
            /\ (pc'[f] = "send") <=> (Started # {})
            /\ \A d \in Started : d.Name = f
            /\ pc'[f] = "send" =>
                 /\ Download(f, feed[f][1]) \in Started
                 /\ feed[f][1].Title = lastTitle'[f]
                 /\ outMsg'[f].Title = feed[f][1].Title
       /\ (\A g \in Rows : ~ProcessStep(g)) =>
            /\ \/ downloads' = downloads
               \/ BagCardinality(downloads') <= BagCardinality(downloads)
            /\ pc'[f] = "send" => pc[f] = "send"
    ]_vars

\* C20 witness: lastTitle had been 1; the startup title came back at the
\* head, its download was started and the message of that title is being
\* sent
C20_Witness ==
  /\ pc[Observed] = "send"
  /\ 1 \in held
  /\ outMsg[Observed] = updatedTitleMessage(Observed, StartTitle)
  /\ CopiesIn(Download(Observed, Item(StartTitle)), downloads) > 0

====
